---- MODULE Spec2Model ----
(***************************************************************************)
(* Model of the eosio.token contract with transfer fees, account freezing  *)
(* and fee exemptions (contracts/eosio.token).                             *)
(*                                                                         *)
(* The three multi_index tables are partial functions / sets:              *)
(*   stat      : symbol code -> currency_stats row                         *)
(*   accounts  : <<owner, symbol code>> -> account row                     *)
(*   exempts   : set of <<symbol code, account>> rows                      *)
(* Every handler is an operator from a ledger L = [stat, accounts,         *)
(* exempts] and its arguments to an outcome [err, L]: err is "ok" or the   *)
(* kind of the first failed check, L the tables as written so far.  The    *)
(* host aborts the whole action on a failed check and discards its writes; *)
(* Apply models that.  A memo is modelled by its size, the only thing the  *)
(* handlers read of it.  RAM payers are not part of the ledger state and   *)
(* are left out: every payer the handlers name has authorized the action   *)
(* or is the contract itself.  require_recipient notifications change no   *)
(* table and are left out.  The overflow assertions of asset arithmetic    *)
(* (|amount| <= 2^62 - 1) cannot fire for the amounts of the model, which  *)
(* stay far below that limit.                                              *)
(*                                                                         *)
(* Three specifications: Spec pushes every action on one token; FeeSpec    *)
(* starts from a token whose supply bob holds, at any accepted fee rate,   *)
(* and transfers quantities around the multiples of the fee unit; TokSpec  *)
(* creates two tokens with their own issuers and exemption sets.           *)
(***************************************************************************)
EXTENDS Integers, FiniteSets, Sequences, TLC

VARIABLES stat, accounts, exempts, last

vars == <<stat, accounts, exempts, last>>

----------------------------------------------------------------------------
(* Bounds and inputs *)

\* how far the maximum supply of a created token exceeds one fee unit: the
\* room a holder of the whole supply has to pay a fee on a transfer of one unit
MaxHeadroom == 49

\* the largest quantity, in fee units, a transfer of the fee scenario moves
MaxFeeUnits == 2

\* divisor of compute_fee
FeeUnit == 10000
\* setfee accepts fees < FeeLimit
FeeLimit == 50
\* default of currency_stats::fees
DefaultFees == 10
\* longest accepted memo
MaxMemo == 256

\* the account the contract is deployed on (get_self())
Self == "token"
\* accounts that exist on the chain
Names == {"token", "alice", "bob"}
\* a name with no account behind it
Ghost == "ghost"
AllNames == Names \cup {Ghost}

\* symbol codes; "bad" is not a valid symbol_code (lower case)
ValidCodes == {"SYM", "TOK"}
Sym(c, p) == [code |-> c, precision |-> p]
SYM2 == Sym("SYM", 2)
SYM4 == Sym("SYM", 4)
BAD == Sym("bad", 2)
\* the second token of the two-token scenario
TOK2 == Sym("TOK", 2)
Symbols == {SYM2, SYM4, BAD}

Asset(a, s) == [amount |-> a, symbol |-> s]

\* the arguments of the actions that are pushed
FeeInputs == {0, FeeLimit - 1, FeeLimit}
MaxSupplyInputs == {Asset(0, SYM2), Asset(FeeUnit + MaxHeadroom, SYM2),
                    Asset(FeeUnit + MaxHeadroom, BAD)}
\* a quantity with its memo size
Payloads == {<<Asset(a, SYM2), 0>> : a \in {0, FeeUnit, FeeUnit + MaxHeadroom}}
            \cup {<<Asset(FeeUnit, SYM4), 0>>, <<Asset(FeeUnit, BAD), 0>>,
                  <<Asset(FeeUnit, SYM2), MaxMemo + 1>>}
\* an action is signed by one account; a transfer by its sender, by its
\* sender and the contract, or by its recipient
PushedAuths == {{n} : n \in Names}
TransferAuths(from, to) == {{from}, {from, Self}, {to}}
Issuers == {"alice"}
FreezeTargets == {"alice", "bob"}
ExemptTargets == {"bob", Ghost}

----------------------------------------------------------------------------
(* Host primitives *)

is_account(n) == n \in Names
symbol_is_valid(s) == s.code \in ValidCodes
asset_is_valid(a) == symbol_is_valid(a.symbol)
has_auth(auth, n) == n \in auth

Ledger(s, a, e) == [stat |-> s, accounts |-> a, exempts |-> e]
Out(e, L) == [err |-> e, L |-> L]
Ok(L) == Out("ok", L)

\* run F on the tables written so far unless an earlier check has failed
Then(r, F(_)) == IF r.err = "ok" THEN F(r.L) ELSE r

\* the host commits the writes of an action that returns and discards the
\* writes of an action a check has aborted
ApplyNoRollback(r, L0) == r.L
Apply(r, L0) == IF r.err = "ok" THEN r.L ELSE L0

Drop(f, k) == [x \in (DOMAIN f) \ {k} |-> f[x]]

----------------------------------------------------------------------------
(* Balance primitives *)

\* amounts are positive here, where \div and C++ integer division agree
compute_fee_rounded(quantity, fee) ==
    Asset((quantity.amount * fee) \div FeeUnit, quantity.symbol)

compute_fee_ceiling(quantity, fee) ==
    Asset(((quantity.amount + FeeUnit - 1) \div FeeUnit) * fee, quantity.symbol)

compute_fee(quantity, fee) ==
    Asset((quantity.amount \div FeeUnit) * fee, quantity.symbol)

sub_balance_unchecked(L, owner, value) ==
    LET key == <<owner, value.symbol.code>> IN
    IF key \notin DOMAIN L.accounts THEN Out("NoBalance", L)
    ELSE IF L.accounts[key].is_frozen THEN Out("AccountFrozen", L)
    ELSE Ok([L EXCEPT !.accounts[key].balance.amount = @ - value.amount])

sub_balance_any(L, owner, value) ==
    LET key == <<owner, value.symbol.code>> IN
    IF key \notin DOMAIN L.accounts THEN Out("NoBalance", L)
    ELSE IF ~(L.accounts[key].balance.amount >= value.amount) THEN Out("Overdrawn", L)
    ELSE Ok([L EXCEPT !.accounts[key].balance.amount = @ - value.amount])

sub_balance(L, owner, value) ==
    LET key == <<owner, value.symbol.code>> IN
    IF key \notin DOMAIN L.accounts THEN Out("NoBalance", L)
    ELSE IF ~(L.accounts[key].balance.amount >= value.amount) THEN Out("Overdrawn", L)
    ELSE IF L.accounts[key].is_frozen THEN Out("AccountFrozen", L)
    ELSE Ok([L EXCEPT !.accounts[key].balance.amount = @ - value.amount])

add_balance_any(L, owner, value) ==
    LET key == <<owner, value.symbol.code>> IN
    IF key \notin DOMAIN L.accounts
    THEN Ok([L EXCEPT !.accounts = @ @@ (key :> [balance |-> value, is_frozen |-> FALSE])])
    ELSE Ok([L EXCEPT !.accounts[key].balance.amount = @ + value.amount])

add_balance(L, owner, value) ==
    LET key == <<owner, value.symbol.code>> IN
    IF key \notin DOMAIN L.accounts
    THEN Ok([L EXCEPT !.accounts = @ @@ (key :> [balance |-> value, is_frozen |-> FALSE])])
    ELSE IF L.accounts[key].is_frozen THEN Out("AccountFrozen", L)
    ELSE Ok([L EXCEPT !.accounts[key].balance.amount = @ + value.amount])

\* what transfer takes from the sender and gives to the recipient
debit_of_quantity(is_exempted, quantity, fee) == quantity
debit_of(is_exempted, quantity, fee) ==
    IF is_exempted THEN quantity
    ELSE Asset(quantity.amount + fee.amount, quantity.symbol)

credit_of_full(is_exempted, quantity, fee) == quantity
credit_of(is_exempted, quantity, fee) ==
    IF is_exempted THEN Asset(quantity.amount - fee.amount, quantity.symbol)
    ELSE quantity

logfee(L, auth) ==
    IF ~has_auth(auth, Self) THEN Out("MissingAuth", L) ELSE Ok(L)

----------------------------------------------------------------------------
(* Action handlers *)

create_overwrite(L, issuer, maximum_supply, auth) ==
    LET sym == maximum_supply.symbol IN
    IF ~has_auth(auth, Self) THEN Out("MissingAuth", L)
    ELSE IF ~symbol_is_valid(sym) THEN Out("InvalidSymbol", L)
    ELSE IF ~asset_is_valid(maximum_supply) THEN Out("InvalidAmount", L)
    ELSE IF ~(maximum_supply.amount > 0) THEN Out("InvalidAmount", L)
    ELSE Ok([L EXCEPT !.stat = (sym.code :>
                [supply |-> Asset(0, maximum_supply.symbol),
                 max_supply |-> maximum_supply,
                 issuer |-> issuer,
                 fees |-> DefaultFees]) @@ @])

create(L, issuer, maximum_supply, auth) ==
    LET sym == maximum_supply.symbol IN
    IF ~has_auth(auth, Self) THEN Out("MissingAuth", L)
    ELSE IF ~symbol_is_valid(sym) THEN Out("InvalidSymbol", L)
    ELSE IF ~asset_is_valid(maximum_supply) THEN Out("InvalidAmount", L)
    ELSE IF ~(maximum_supply.amount > 0) THEN Out("InvalidAmount", L)
    ELSE IF sym.code \in DOMAIN L.stat THEN Out("AlreadyExists", L)
    ELSE Ok([L EXCEPT !.stat = @ @@ (sym.code :>
                [supply |-> Asset(0, maximum_supply.symbol),
                 max_supply |-> maximum_supply,
                 issuer |-> issuer,
                 fees |-> DefaultFees])])

setfee_inclusive(L, issuer, symbol, fees, auth) ==
    IF ~has_auth(auth, issuer) THEN Out("MissingAuth", L)
    ELSE IF ~(fees <= FeeLimit) THEN Out("InvalidFee", L)
    ELSE IF ~symbol_is_valid(symbol) THEN Out("InvalidSymbol", L)
    ELSE IF symbol.code \notin DOMAIN L.stat THEN Out("NotFound", L)
    ELSE IF ~(L.stat[symbol.code].issuer = issuer) THEN Out("Unauthorized", L)
    ELSE Ok([L EXCEPT !.stat[symbol.code].fees = fees])

setfee(L, issuer, symbol, fees, auth) ==
    IF ~has_auth(auth, issuer) THEN Out("MissingAuth", L)
    ELSE IF ~(fees < FeeLimit) THEN Out("InvalidFee", L)
    ELSE IF ~symbol_is_valid(symbol) THEN Out("InvalidSymbol", L)
    ELSE IF symbol.code \notin DOMAIN L.stat THEN Out("NotFound", L)
    ELSE IF ~(L.stat[symbol.code].issuer = issuer) THEN Out("Unauthorized", L)
    ELSE Ok([L EXCEPT !.stat[symbol.code].fees = fees])

issue_strict(L, to, quantity, memo, auth) ==
    LET sym == quantity.symbol IN
    IF ~symbol_is_valid(sym) THEN Out("InvalidSymbol", L)
    ELSE IF ~(memo <= MaxMemo) THEN Out("MemoTooLong", L)
    ELSE IF sym.code \notin DOMAIN L.stat THEN Out("NotFound", L)
    ELSE LET st == L.stat[sym.code] IN
         IF ~(to = st.issuer) THEN Out("IssueTargetMismatch", L)
         ELSE IF ~has_auth(auth, st.issuer) THEN Out("MissingAuth", L)
         ELSE IF ~asset_is_valid(quantity) THEN Out("InvalidAmount", L)
         ELSE IF ~(quantity.amount > 0) THEN Out("InvalidAmount", L)
         ELSE IF ~(quantity.symbol = st.supply.symbol) THEN Out("SymbolMismatch", L)
         ELSE IF ~(quantity.amount < st.max_supply.amount - st.supply.amount)
              THEN Out("SupplyExceeded", L)
         ELSE add_balance([L EXCEPT !.stat[sym.code].supply.amount = @ + quantity.amount],
                          st.issuer, quantity)

issue(L, to, quantity, memo, auth) ==
    LET sym == quantity.symbol IN
    IF ~symbol_is_valid(sym) THEN Out("InvalidSymbol", L)
    ELSE IF ~(memo <= MaxMemo) THEN Out("MemoTooLong", L)
    ELSE IF sym.code \notin DOMAIN L.stat THEN Out("NotFound", L)
    ELSE LET st == L.stat[sym.code] IN
         IF ~(to = st.issuer) THEN Out("IssueTargetMismatch", L)
         ELSE IF ~has_auth(auth, st.issuer) THEN Out("MissingAuth", L)
         ELSE IF ~asset_is_valid(quantity) THEN Out("InvalidAmount", L)
         ELSE IF ~(quantity.amount > 0) THEN Out("InvalidAmount", L)
         ELSE IF ~(quantity.symbol = st.supply.symbol) THEN Out("SymbolMismatch", L)
         ELSE IF ~(quantity.amount <= st.max_supply.amount - st.supply.amount)
              THEN Out("SupplyExceeded", L)
         ELSE add_balance([L EXCEPT !.stat[sym.code].supply.amount = @ + quantity.amount],
                          st.issuer, quantity)

retire_supply_only(L, quantity, memo, auth) ==
    LET sym == quantity.symbol IN
    IF ~symbol_is_valid(sym) THEN Out("InvalidSymbol", L)
    ELSE IF ~(memo <= MaxMemo) THEN Out("MemoTooLong", L)
    ELSE IF sym.code \notin DOMAIN L.stat THEN Out("NotFound", L)
    ELSE LET st == L.stat[sym.code] IN
         IF ~has_auth(auth, st.issuer) THEN Out("MissingAuth", L)
         ELSE IF ~asset_is_valid(quantity) THEN Out("InvalidAmount", L)
         ELSE IF ~(quantity.amount > 0) THEN Out("InvalidAmount", L)
         ELSE IF ~(quantity.symbol = st.supply.symbol) THEN Out("SymbolMismatch", L)
         ELSE IF ~(quantity.amount <= st.supply.amount) THEN Out("Overdrawn", L)
         ELSE Ok([L EXCEPT !.stat[sym.code].supply.amount = @ - quantity.amount])

retire(L, quantity, memo, auth) ==
    LET sym == quantity.symbol IN
    IF ~symbol_is_valid(sym) THEN Out("InvalidSymbol", L)
    ELSE IF ~(memo <= MaxMemo) THEN Out("MemoTooLong", L)
    ELSE IF sym.code \notin DOMAIN L.stat THEN Out("NotFound", L)
    ELSE LET st == L.stat[sym.code] IN
         IF ~has_auth(auth, st.issuer) THEN Out("MissingAuth", L)
         ELSE IF ~asset_is_valid(quantity) THEN Out("InvalidAmount", L)
         ELSE IF ~(quantity.amount > 0) THEN Out("InvalidAmount", L)
         ELSE IF ~(quantity.symbol = st.supply.symbol) THEN Out("SymbolMismatch", L)
         ELSE sub_balance([L EXCEPT !.stat[sym.code].supply.amount = @ - quantity.amount],
                          st.issuer, quantity)

transfer_memo_first(L, from, to, quantity, memo, auth) ==
    LET sym == quantity.symbol.code IN
    IF ~(memo <= MaxMemo) THEN Out("MemoTooLong", L)
    ELSE IF ~(from # to) THEN Out("SelfTransfer", L)
    ELSE IF ~has_auth(auth, from) THEN Out("MissingAuth", L)
    ELSE IF ~is_account(to) THEN Out("UnknownAccount", L)
    ELSE IF sym \notin DOMAIN L.stat THEN Out("NotFound", L)
    ELSE LET st == L.stat[sym] IN
         IF ~asset_is_valid(quantity) THEN Out("InvalidAmount", L)
         ELSE IF ~(quantity.amount > 0) THEN Out("InvalidAmount", L)
         ELSE IF ~(quantity.symbol = st.supply.symbol) THEN Out("SymbolMismatch", L)
         ELSE LET fee == compute_fee(quantity, st.fees)
                  is_exempted == <<sym, from>> \in L.exempts
                  debit == debit_of(is_exempted, quantity, fee)
                  credit == credit_of(is_exempted, quantity, fee)
                  r1 == sub_balance(L, from, debit)
                  r2 == Then(r1, LAMBDA M : add_balance(M, to, credit))
                  r3 == Then(r2, LAMBDA M : logfee(M, auth))
              IN Then(r3, LAMBDA M : add_balance(M, st.issuer, fee))

transfer_unsigned(L, from, to, quantity, memo, auth) ==
    LET sym == quantity.symbol.code IN
    IF ~(from # to) THEN Out("SelfTransfer", L)
    ELSE IF ~is_account(to) THEN Out("UnknownAccount", L)
    ELSE IF sym \notin DOMAIN L.stat THEN Out("NotFound", L)
    ELSE LET st == L.stat[sym] IN
         IF ~asset_is_valid(quantity) THEN Out("InvalidAmount", L)
         ELSE IF ~(quantity.amount > 0) THEN Out("InvalidAmount", L)
         ELSE IF ~(quantity.symbol = st.supply.symbol) THEN Out("SymbolMismatch", L)
         ELSE IF ~(memo <= MaxMemo) THEN Out("MemoTooLong", L)
         ELSE LET fee == compute_fee(quantity, st.fees)
                  is_exempted == <<sym, from>> \in L.exempts
                  debit == debit_of(is_exempted, quantity, fee)
                  credit == credit_of(is_exempted, quantity, fee)
                  r1 == sub_balance(L, from, debit)
                  r2 == Then(r1, LAMBDA M : add_balance(M, to, credit))
                  r3 == Then(r2, LAMBDA M : logfee(M, auth))
              IN Then(r3, LAMBDA M : add_balance(M, st.issuer, fee))

transfer(L, from, to, quantity, memo, auth) ==
    LET sym == quantity.symbol.code IN
    IF ~(from # to) THEN Out("SelfTransfer", L)
    ELSE IF ~has_auth(auth, from) THEN Out("MissingAuth", L)
    ELSE IF ~is_account(to) THEN Out("UnknownAccount", L)
    ELSE IF sym \notin DOMAIN L.stat THEN Out("NotFound", L)
    ELSE LET st == L.stat[sym] IN
         IF ~asset_is_valid(quantity) THEN Out("InvalidAmount", L)
         ELSE IF ~(quantity.amount > 0) THEN Out("InvalidAmount", L)
         ELSE IF ~(quantity.symbol = st.supply.symbol) THEN Out("SymbolMismatch", L)
         ELSE IF ~(memo <= MaxMemo) THEN Out("MemoTooLong", L)
         ELSE LET fee == compute_fee(quantity, st.fees)
                  is_exempted == <<sym, from>> \in L.exempts
                  debit == debit_of(is_exempted, quantity, fee)
                  credit == credit_of(is_exempted, quantity, fee)
                  r1 == sub_balance(L, from, debit)
                  r2 == Then(r1, LAMBDA M : add_balance(M, to, credit))
                  r3 == Then(r2, LAMBDA M : logfee(M, auth))
              IN Then(r3, LAMBDA M : add_balance(M, st.issuer, fee))

open_reset(L, owner, symbol, auth, ram_payer) ==
    LET key == <<owner, symbol.code>> IN
    IF ~has_auth(auth, ram_payer) THEN Out("MissingAuth", L)
    ELSE IF ~is_account(owner) THEN Out("UnknownAccount", L)
    ELSE IF symbol.code \notin DOMAIN L.stat THEN Out("NotFound", L)
    ELSE IF ~(L.stat[symbol.code].supply.symbol = symbol) THEN Out("SymbolMismatch", L)
    ELSE Ok([L EXCEPT !.accounts = (key :> [balance |-> Asset(0, symbol),
                                            is_frozen |-> FALSE]) @@ @])

open(L, owner, symbol, auth, ram_payer) ==
    LET key == <<owner, symbol.code>> IN
    IF ~has_auth(auth, ram_payer) THEN Out("MissingAuth", L)
    ELSE IF ~is_account(owner) THEN Out("UnknownAccount", L)
    ELSE IF symbol.code \notin DOMAIN L.stat THEN Out("NotFound", L)
    ELSE IF ~(L.stat[symbol.code].supply.symbol = symbol) THEN Out("SymbolMismatch", L)
    ELSE IF key \notin DOMAIN L.accounts
         THEN Ok([L EXCEPT !.accounts = @ @@ (key :>
                     [balance |-> Asset(0, symbol), is_frozen |-> FALSE])])
         ELSE Ok(L)

close_any(L, owner, symbol, auth) ==
    LET key == <<owner, symbol.code>> IN
    IF ~has_auth(auth, owner) THEN Out("MissingAuth", L)
    ELSE IF key \notin DOMAIN L.accounts THEN Out("NotFound", L)
    ELSE Ok([L EXCEPT !.accounts = Drop(@, key)])

close(L, owner, symbol, auth) ==
    LET key == <<owner, symbol.code>> IN
    IF ~has_auth(auth, owner) THEN Out("MissingAuth", L)
    ELSE IF key \notin DOMAIN L.accounts THEN Out("NotFound", L)
    ELSE IF ~(L.accounts[key].balance.amount = 0) THEN Out("NonZeroBalance", L)
    ELSE Ok([L EXCEPT !.accounts = Drop(@, key)])

freeze(L, account, symbol, status, auth) ==
    LET key == <<account, symbol.code>> IN
    IF symbol.code \notin DOMAIN L.stat THEN Out("NotFound", L)
    ELSE IF ~has_auth(auth, L.stat[symbol.code].issuer) THEN Out("MissingAuth", L)
    ELSE IF key \notin DOMAIN L.accounts THEN Out("NotFound", L)
    ELSE Ok([L EXCEPT !.accounts[key].is_frozen = status])

switchexempt_insert_only(L, issuer, symbol, account, auth) ==
    LET row == <<symbol.code, account>> IN
    IF ~has_auth(auth, issuer) THEN Out("MissingAuth", L)
    ELSE IF ~symbol_is_valid(symbol) THEN Out("InvalidSymbol", L)
    ELSE IF ~is_account(account) THEN Out("UnknownAccount", L)
    ELSE IF symbol.code \notin DOMAIN L.stat THEN Out("NotFound", L)
    ELSE IF ~(L.stat[symbol.code].issuer = issuer) THEN Out("Unauthorized", L)
    ELSE Ok([L EXCEPT !.exempts = @ \cup {row}])

switchexempt(L, issuer, symbol, account, auth) ==
    LET row == <<symbol.code, account>> IN
    IF ~has_auth(auth, issuer) THEN Out("MissingAuth", L)
    ELSE IF ~symbol_is_valid(symbol) THEN Out("InvalidSymbol", L)
    ELSE IF ~is_account(account) THEN Out("UnknownAccount", L)
    ELSE IF symbol.code \notin DOMAIN L.stat THEN Out("NotFound", L)
    ELSE IF ~(L.stat[symbol.code].issuer = issuer) THEN Out("Unauthorized", L)
    ELSE IF row \notin L.exempts
         THEN Ok([L EXCEPT !.exempts = @ \cup {row}])
         ELSE Ok([L EXCEPT !.exempts = @ \ {row}])

\* read-only queries
get_supply(L, sym_code) ==
    IF sym_code \notin DOMAIN L.stat THEN Out("NotFound", 0)
    ELSE Out("ok", L.stat[sym_code].supply.amount)

get_balance(L, owner, sym_code) ==
    IF <<owner, sym_code>> \notin DOMAIN L.accounts THEN Out("NotFound", 0)
    ELSE Out("ok", L.accounts[<<owner, sym_code>>].balance.amount)

----------------------------------------------------------------------------
(* The contract as a state machine: one step per pushed action *)

Cur == Ledger(stat, accounts, exempts)

NoName == "-"
NoAsset == Asset(0, Sym("-", 0))

\* the action pushed last: its name, arguments, authorization and outcome
Call(op, auth, a, b, qty, memo, fees, status) ==
    [op |-> op, auth |-> auth, a |-> a, b |-> b, qty |-> qty,
     memo |-> memo, fees |-> fees, status |-> status]

\* of a rejected action only the name and the kind of the rejection are kept
Rejected(op) == Call(op, {}, NoName, NoName, NoAsset, 0, 0, FALSE)

Done(r, call) ==
    LET L == Apply(r, Cur) IN
    /\ stat' = L.stat
    /\ accounts' = L.accounts
    /\ exempts' = L.exempts
    /\ last' = [call |-> IF r.err = "ok" THEN call ELSE Rejected(call.op), err |-> r.err]

Init ==
    /\ stat = <<>>
    /\ accounts = <<>>
    /\ exempts = {}
    /\ last = [call |-> Call("none", {}, NoName, NoName, NoAsset, 0, 0, FALSE), err |-> "ok"]

Create ==
    \E issuer \in Issuers, maximum_supply \in MaxSupplyInputs, auth \in PushedAuths :
        Done(create(Cur, issuer, maximum_supply, auth),
             Call("create", auth, issuer, NoName, maximum_supply, 0, 0, FALSE))

SetFee ==
    \E issuer \in {"alice", "bob"}, sym \in {SYM2, BAD}, fees \in FeeInputs,
       auth \in PushedAuths :
        Done(setfee(Cur, issuer, sym, fees, auth),
             Call("setfee", auth, issuer, NoName, Asset(0, sym), 0, fees, FALSE))

Issue ==
    \E to \in {"alice", "bob"}, p \in Payloads, auth \in PushedAuths :
        Done(issue(Cur, to, p[1], p[2], auth),
             Call("issue", auth, NoName, to, p[1], p[2], 0, FALSE))

Retire ==
    \E p \in Payloads, auth \in PushedAuths :
        Done(retire(Cur, p[1], p[2], auth),
             Call("retire", auth, NoName, NoName, p[1], p[2], 0, FALSE))

Transfer ==
    \E from \in Names, to \in AllNames, p \in Payloads :
      \E auth \in TransferAuths(from, to) :
        Done(transfer(Cur, from, to, p[1], p[2], auth),
             Call("transfer", auth, from, to, p[1], p[2], 0, FALSE))

Open ==
    \E owner \in AllNames, sym \in {SYM2, SYM4}, ram_payer \in Names :
      \E auth \in {{ram_payer}, {owner}} :
        Done(open(Cur, owner, sym, auth, ram_payer),
             Call("open", auth, owner, ram_payer, Asset(0, sym), 0, 0, FALSE))

Close ==
    \E owner \in Names, sym \in {SYM2, SYM4}, auth \in PushedAuths :
        Done(close(Cur, owner, sym, auth),
             Call("close", auth, owner, NoName, Asset(0, sym), 0, 0, FALSE))

Freeze ==
    \E account \in FreezeTargets \cup {Ghost}, sym \in {SYM2, BAD}, status \in BOOLEAN,
       auth \in PushedAuths :
        Done(freeze(Cur, account, sym, status, auth),
             Call("freeze", auth, account, NoName, Asset(0, sym), 0, 0, status))

SwitchExempt ==
    \E issuer \in {"alice", "bob"}, sym \in {SYM2, BAD}, account \in ExemptTargets,
       auth \in PushedAuths :
        Done(switchexempt(Cur, issuer, sym, account, auth),
             Call("switchexempt", auth, issuer, account, Asset(0, sym), 0, 0, FALSE))

Next ==
    \/ Create
    \/ SetFee
    \/ Issue
    \/ Retire
    \/ Transfer
    \/ Open
    \/ Close
    \/ Freeze
    \/ SwitchExempt

Spec == Init /\ [][Next]_vars

----------------------------------------------------------------------------
(* The fee scenario: the token is created, its fee rate set (any rate     *)
(* setfee accepts) and its whole supply issued and handed to bob; bob, the *)
(* issuer being neither sender nor recipient, then transfers quantities    *)
(* around the multiples of the fee unit to the contract account while the  *)
(* issuer toggles bob's exemption.                                         *)

FeeRates == 0 .. (FeeLimit - 1)
FeeAmounts == {FeeUnit \div 2}
              \cup {k * FeeUnit + d : k \in 1 .. MaxFeeUnits, d \in {-1, 0, 1}}
\* covers the largest quantity and the largest fee on it
FeeSupply == MaxFeeUnits * FeeUnit + 1 + MaxFeeUnits * (FeeLimit - 1)

FeeInit ==
    \E rate \in FeeRates :
        /\ stat = ("SYM" :> [supply |-> Asset(FeeSupply, SYM2),
                             max_supply |-> Asset(FeeSupply, SYM2),
                             issuer |-> "alice",
                             fees |-> rate])
        /\ accounts = (<<"alice", "SYM">> :> [balance |-> Asset(0, SYM2), is_frozen |-> FALSE])
                      @@ (<<"bob", "SYM">> :> [balance |-> Asset(FeeSupply, SYM2),
                                               is_frozen |-> FALSE])
        /\ exempts = {}
        /\ last = [call |-> Call("none", {}, NoName, NoName, NoAsset, 0, 0, FALSE), err |-> "ok"]

FeeTransfer ==
    \E a \in FeeAmounts :
        Done(transfer(Cur, "bob", Self, Asset(a, SYM2), 0, {"bob", Self}),
             Call("transfer", {"bob", Self}, "bob", Self, Asset(a, SYM2), 0, 0, FALSE))

FeeSwitchExempt ==
    Done(switchexempt(Cur, "alice", SYM2, "bob", {"alice"}),
         Call("switchexempt", {"alice"}, "alice", "bob", Asset(0, SYM2), 0, 0, FALSE))

FeeNext ==
    \/ FeeTransfer
    \/ FeeSwitchExempt

FeeSpec == FeeInit /\ [][FeeNext]_vars

----------------------------------------------------------------------------
(* The two-token scenario: two tokens with their own issuers are created,  *)
(* their fee rates set, one fee unit of each issued and accounts switched  *)
(* in and out of their exemption sets.                                     *)

TokenSymbols == {SYM2, TOK2}
TokenIssuers == {"alice", "bob"}
TokenExemptTargets == {"bob", Self, Ghost}

TokCreate ==
    \E issuer \in TokenIssuers, sym \in TokenSymbols :
        Done(create(Cur, issuer, Asset(FeeUnit + MaxHeadroom, sym), {Self}),
             Call("create", {Self}, issuer, NoName, Asset(FeeUnit + MaxHeadroom, sym),
                  0, 0, FALSE))

TokSetFee ==
    \E issuer \in TokenIssuers, sym \in TokenSymbols, fees \in {0, FeeLimit} :
        Done(setfee(Cur, issuer, sym, fees, {issuer}),
             Call("setfee", {issuer}, issuer, NoName, Asset(0, sym), 0, fees, FALSE))

TokIssue ==
    \E to \in TokenIssuers, sym \in TokenSymbols :
        Done(issue(Cur, to, Asset(FeeUnit, sym), 0, {to}),
             Call("issue", {to}, NoName, to, Asset(FeeUnit, sym), 0, 0, FALSE))

TokSwitchExempt ==
    \E issuer \in TokenIssuers, sym \in TokenSymbols, account \in TokenExemptTargets :
      \E auth \in {{issuer}, {account}} :
        Done(switchexempt(Cur, issuer, sym, account, auth),
             Call("switchexempt", auth, issuer, account, Asset(0, sym), 0, 0, FALSE))

TokNext ==
    \/ TokCreate
    \/ TokSetFee
    \/ TokIssue
    \/ TokSwitchExempt

TokSpec == Init /\ [][TokNext]_vars

----------------------------------------------------------------------------
(* Observations used by the properties *)

HasRow(L, owner, code) == <<owner, code>> \in DOMAIN L.accounts
\* the balance of an owner, 0 when the owner has no record
Bal(L, owner, code) ==
    IF HasRow(L, owner, code) THEN L.accounts[<<owner, code>>].balance.amount ELSE 0
Frozen(L, owner, code) ==
    HasRow(L, owner, code) /\ L.accounts[<<owner, code>>].is_frozen

RECURSIVE SumOver(_, _, _)
SumOver(L, owners, code) ==
    IF owners = {} THEN 0
    ELSE LET o == CHOOSE x \in owners : TRUE
         IN Bal(L, o, code) + SumOver(L, owners \ {o}, code)

Owners(L, code) == {k[1] : k \in {x \in DOMAIN L.accounts : x[2] = code}}
SumBalances(L, code) == SumOver(L, Owners(L, code), code)

Applied(op) == last.err = "ok" /\ last.call.op = op
RejectedWith(op, kind) == last.err = kind /\ last.call.op = op

----------------------------------------------------------------------------
(* C1 -- Conservation: in every reachable state, for every symbol, the      *)
(* supply of the supply record equals the sum of the balances of all        *)
(* balance records of that symbol, and no balance record exists for a       *)
(* symbol without a supply record.                                          *)
Conservation ==
    /\ \A code \in DOMAIN stat : stat[code].supply.amount = SumBalances(Cur, code)
    /\ \A k \in DOMAIN accounts : k[2] \in DOMAIN stat

\* a transfer with a non-zero fee rate, sent by or to the issuer, was applied
ConservationWitness ==
    /\ Applied("transfer")
    /\ "SYM" \in DOMAIN stat
    /\ stat["SYM"].fees > 0
    /\ stat["SYM"].issuer \in {last.call.a, last.call.b}
    /\ stat["SYM"].supply.amount > 0

(* C2 -- Non-negativity and ceiling: every balance is >= 0 and every supply *)
(* record has 0 <= supply <= max_supply with max_supply > 0.                *)
NonNegativityAndCeiling ==
    /\ \A k \in DOMAIN accounts : accounts[k].balance.amount >= 0
    /\ \A code \in DOMAIN stat :
          /\ 0 <= stat[code].supply.amount
          /\ stat[code].supply.amount <= stat[code].max_supply.amount
          /\ stat[code].max_supply.amount > 0

\* a retire that emptied the supply was applied
NonNegativityWitness ==
    /\ Applied("retire")
    /\ stat["SYM"].supply.amount = 0
    /\ Bal(Cur, stat["SYM"].issuer, "SYM") = 0

----------------------------------------------------------------------------
(* Argument values the handlers are examined on in the properties below *)

ExaminedAssets == {Asset(a, sym) : a \in {0, FeeUnit, FeeUnit + MaxHeadroom},
                                   sym \in Symbols}
ExaminedMemos == {0, MaxMemo, MaxMemo + 1}
ExaminedAuths == {{n} : n \in Names} \cup {{n, Self} : n \in Names}

\* the checks of transfer that come before the balances are touched all pass
TransferInputsValid(L, from, to, quantity, memo) ==
    /\ from # to
    /\ is_account(to)
    /\ quantity.symbol.code \in DOMAIN L.stat
    /\ quantity.amount > 0
    /\ quantity.symbol = L.stat[quantity.symbol.code].supply.symbol
    /\ memo <= MaxMemo

\* the fee transfer charges on quantity, and the sender's exemption
FeeOf(L, quantity) == compute_fee(quantity, L.stat[quantity.symbol.code].fees).amount
Exempt(L, from, code) == <<code, from>> \in L.exempts
DebitOf(L, from, quantity) ==
    IF Exempt(L, from, quantity.symbol.code) THEN quantity.amount
    ELSE quantity.amount + FeeOf(L, quantity)

----------------------------------------------------------------------------
TransferNeedsOnlyFromAuth ==
    \A from \in Names \ {Self}, to \in Names, quantity \in ExaminedAssets :
        LET code == quantity.symbol.code
            r == transfer(Cur, from, to, quantity, 0, {from})
        IN (/\ TransferInputsValid(Cur, from, to, quantity, 0)
            /\ HasRow(Cur, from, code)
            /\ ~Frozen(Cur, from, code)
            /\ Bal(Cur, from, code) >= DebitOf(Cur, from, quantity)
            /\ ~Frozen(Cur, to, code)
            /\ ~Frozen(Cur, stat[code].issuer, code))
           => /\ r.err = "ok"
              /\ r.L.accounts # accounts

----------------------------------------------------------------------------
(* Balance changes of an applied transfer, read off the step that applied   *)
(* it: last' holds its arguments; transfer changes neither the supply       *)
(* record nor the exemption set, so fee and exemption are those of Cur.     *)

Delta(owner, code) == Bal(Ledger(stat', accounts', exempts'), owner, code) - Bal(Cur, owner, code)

TransferStep == last'.err = "ok" /\ last'.call.op = "transfer"

StepFee == FeeOf(Cur, last'.call.qty)
StepExempt == Exempt(Cur, last'.call.a, last'.call.qty.symbol.code)
StepIssuer == stat[last'.call.qty.symbol.code].issuer
FromChange == IF StepExempt THEN 0 - last'.call.qty.amount
              ELSE 0 - (last'.call.qty.amount + StepFee)
ToChange == IF StepExempt THEN last'.call.qty.amount - StepFee
            ELSE last'.call.qty.amount
Share(owner, who, change) == IF owner = who THEN change ELSE 0

(* C5 (as stated) -- Exemption symmetry: in every applied transfer the      *)
(* balance of from decreases by exactly quantity (exempt) or quantity + fee *)
(* (not exempt), the balance of to increases by exactly quantity - fee      *)
(* (exempt) or quantity (not exempt), and the balance of the issuer         *)
(* increases by exactly fee.                                                *)
ExemptionSymmetryAsStated ==
    [][TransferStep =>
         LET code == last'.call.qty.symbol.code IN
         /\ Delta(last'.call.a, code) = FromChange
         /\ Delta(last'.call.b, code) = ToChange
         /\ Delta(StepIssuer, code) = StepFee]_vars

(* C5 (amended) -- Exemption symmetry: in every applied transfer the debit  *)
(* of from is quantity (exempt) or quantity + fee (not exempt), the credit  *)
(* of to is quantity - fee (exempt) or quantity (not exempt) and the credit *)
(* of the issuer is fee; each balance changes by the sum of the debits and  *)
(* credits that land on it, so the three changes are exactly those amounts  *)
(* when the issuer is neither from nor to, and no other balance changes.    *)
ExemptionSymmetry ==
    [][TransferStep =>
         LET code == last'.call.qty.symbol.code IN
         \A n \in Names :
            Delta(n, code) = Share(n, last'.call.a, FromChange)
                             + Share(n, last'.call.b, ToChange)
                             + Share(n, StepIssuer, StepFee)]_vars

\* a transfer between two accounts other than the issuer, sent by an exempt
\* account while the fee rate is not 0, was applied
ExemptionSymmetryWitness ==
    /\ Applied("transfer")
    /\ stat["SYM"].fees > 0
    /\ Exempt(Cur, last.call.a, "SYM")
    /\ stat["SYM"].issuer \notin {last.call.a, last.call.b}

\* the same for a sender that is not exempt
NonExemptTransferApplied ==
    /\ Applied("transfer")
    /\ stat["SYM"].fees > 0
    /\ ~Exempt(Cur, last.call.a, "SYM")
    /\ stat["SYM"].issuer \notin {last.call.a, last.call.b}

----------------------------------------------------------------------------
\* the sender's record exists, is not frozen and covers what transfer debits
SenderCovers(L, from, quantity) ==
    /\ HasRow(L, from, quantity.symbol.code)
    /\ ~Frozen(L, from, quantity.symbol.code)
    /\ Bal(L, from, quantity.symbol.code) >= DebitOf(L, from, quantity)

\* what an applied transfer adds to the record of `to`
CreditOf(L, from, to, quantity) ==
    (IF Exempt(L, from, quantity.symbol.code)
     THEN quantity.amount - FeeOf(L, quantity) ELSE quantity.amount)
    + (IF L.stat[quantity.symbol.code].issuer = to THEN FeeOf(L, quantity) ELSE 0)

\* the checks of issue that come before the supply is touched all pass
IssueInputsValid(L, to, quantity, memo, auth) ==
    /\ symbol_is_valid(quantity.symbol)
    /\ memo <= MaxMemo
    /\ quantity.symbol.code \in DOMAIN L.stat
    /\ to = L.stat[quantity.symbol.code].issuer
    /\ to \in auth
    /\ quantity.amount > 0
    /\ quantity.symbol = L.stat[quantity.symbol.code].supply.symbol
    /\ quantity.amount <= L.stat[quantity.symbol.code].max_supply.amount
                          - L.stat[quantity.symbol.code].supply.amount

IssueStep == last'.err = "ok" /\ last'.call.op = "issue"

(* C6 (as stated) -- A frozen balance record may still be credited: a       *)
(* transfer to an owner whose record is frozen, valid otherwise, and an     *)
(* issue to an issuer whose record is frozen, valid otherwise, are not      *)
(* rejected and raise the owner's balance by the credited amount.           *)
FrozenMayBeCredited ==
    \A to \in Names :
        Frozen(Cur, to, "SYM") =>
            /\ \A from \in Names \ {to}, quantity \in ExaminedAssets :
                  LET r == transfer(Cur, from, to, quantity, 0, {from, Self}) IN
                  (/\ TransferInputsValid(Cur, from, to, quantity, 0)
                   /\ SenderCovers(Cur, from, quantity)
                   /\ ~Frozen(Cur, stat["SYM"].issuer, "SYM") \/ stat["SYM"].issuer = to)
                  => /\ r.err = "ok"
                     /\ Bal(r.L, to, "SYM")
                          = Bal(Cur, to, "SYM") + CreditOf(Cur, from, to, quantity)
            /\ \A quantity \in ExaminedAssets :
                  LET r == issue(Cur, to, quantity, 0, {to}) IN
                  IssueInputsValid(Cur, to, quantity, 0, {to})
                  => /\ r.err = "ok"
                     /\ Bal(r.L, to, "SYM") = Bal(Cur, to, "SYM") + quantity.amount

(* C6 (amended) -- A frozen balance record is never credited: no step       *)
(* raises the balance of a record that is frozen before the step; no        *)
(* transfer is applied whose recipient's record or whose issuer's record is *)
(* frozen, and no issue is applied while the issuer's record is frozen.     *)
FrozenNeverCredited ==
    [][/\ \A n \in Names : Frozen(Cur, n, "SYM") => Delta(n, "SYM") <= 0
       /\ TransferStep =>
            /\ ~Frozen(Cur, last'.call.b, last'.call.qty.symbol.code)
            /\ ~Frozen(Cur, StepIssuer, last'.call.qty.symbol.code)
       /\ IssueStep => ~Frozen(Cur, last'.call.b, last'.call.qty.symbol.code)]_vars

\* a transfer whose sender could pay was rejected because the recipient's
\* record is frozen
FrozenNeverCreditedWitness ==
    /\ RejectedWith("transfer", "AccountFrozen")
    /\ \E from \in Names, to \in Names :
          /\ Frozen(Cur, to, "SYM")
          /\ TransferInputsValid(Cur, from, to, Asset(FeeUnit, SYM2), 0)
          /\ SenderCovers(Cur, from, Asset(FeeUnit, SYM2))
          /\ transfer(Cur, from, to, Asset(FeeUnit, SYM2), 0, {from, Self}).err
               = "AccountFrozen"

----------------------------------------------------------------------------
\* the checks of retire that come before the supply is touched all pass
RetireInputsValid(L, quantity, memo, auth) ==
    /\ symbol_is_valid(quantity.symbol)
    /\ memo <= MaxMemo
    /\ quantity.symbol.code \in DOMAIN L.stat
    /\ L.stat[quantity.symbol.code].issuer \in auth
    /\ quantity.amount > 0
    /\ quantity.symbol = L.stat[quantity.symbol.code].supply.symbol

\* every transfer sent by a frozen owner is rejected, with AccountFrozen when
\* it reaches the debit and the balance covers it
FrozenSenderRejected ==
    \A from \in Names :
        Frozen(Cur, from, "SYM") =>
            \A to \in AllNames, quantity \in ExaminedAssets, memo \in ExaminedMemos,
               auth \in ExaminedAuths :
                LET r == transfer(Cur, from, to, quantity, memo, auth) IN
                quantity.symbol.code = "SYM" =>
                    /\ r.err # "ok"
                    /\ (/\ TransferInputsValid(Cur, from, to, quantity, memo)
                        /\ from \in auth
                        /\ Bal(Cur, from, "SYM") >= DebitOf(Cur, from, quantity))
                       => r.err = "AccountFrozen"

\* every retire is rejected while the issuer's record is frozen, with
\* AccountFrozen when it reaches the debit and the balance covers it
FrozenIssuerRetireRejected ==
    \A code \in DOMAIN stat :
        Frozen(Cur, stat[code].issuer, code) =>
            \A quantity \in ExaminedAssets, memo \in ExaminedMemos, auth \in ExaminedAuths :
                LET r == retire(Cur, quantity, memo, auth) IN
                quantity.symbol.code = code =>
                    /\ r.err # "ok"
                    /\ (/\ RetireInputsValid(Cur, quantity, memo, auth)
                        /\ Bal(Cur, stat[code].issuer, code) >= quantity.amount)
                       => r.err = "AccountFrozen"

(* C7 -- Freeze blocks debit: a transfer sent by an owner whose record is   *)
(* frozen and a retire while the issuer's record is frozen are rejected,    *)
(* with AccountFrozen when the balance covers the debited amount, and no    *)
(* step lowers the balance of a record that is frozen before the step.      *)
FreezeBlocksDebit ==
    /\ [](FrozenSenderRejected /\ FrozenIssuerRetireRejected)
    /\ [][\A n \in Names : Frozen(Cur, n, "SYM") => Delta(n, "SYM") >= 0]_vars

\* a transfer from a frozen record that covers the debit was rejected
FreezeBlocksDebitWitness ==
    /\ RejectedWith("transfer", "AccountFrozen")
    /\ \E from \in Names, to \in Names :
          /\ Frozen(Cur, from, "SYM")
          /\ ~Frozen(Cur, to, "SYM")
          /\ ~Frozen(Cur, stat["SYM"].issuer, "SYM")
          /\ TransferInputsValid(Cur, from, to, Asset(FeeUnit, SYM2), 0)
          /\ Bal(Cur, from, "SYM") >= DebitOf(Cur, from, Asset(FeeUnit, SYM2))
          /\ transfer(Cur, from, to, Asset(FeeUnit, SYM2), 0, {from}).err = "AccountFrozen"

\* a retire the frozen issuer's balance covers was rejected
FrozenRetireRejectedReached ==
    /\ RejectedWith("retire", "AccountFrozen")
    /\ Frozen(Cur, stat["SYM"].issuer, "SYM")
    /\ Bal(Cur, stat["SYM"].issuer, "SYM") >= FeeUnit

----------------------------------------------------------------------------
\* every transfer to an owner whose record is frozen is rejected, with
\* AccountFrozen when it reaches the credit
FrozenRecipientRejected ==
    \A to \in Names :
        Frozen(Cur, to, "SYM") =>
            \A from \in Names, quantity \in ExaminedAssets, memo \in ExaminedMemos,
               auth \in ExaminedAuths :
                LET r == transfer(Cur, from, to, quantity, memo, auth) IN
                quantity.symbol.code = "SYM" =>
                    /\ r.err # "ok"
                    /\ (/\ TransferInputsValid(Cur, from, to, quantity, memo)
                        /\ from \in auth
                        /\ SenderCovers(Cur, from, quantity))
                       => r.err = "AccountFrozen"

\* while the issuer's record is frozen every issue and every transfer of the
\* symbol is rejected, with AccountFrozen when it reaches the credit of the
\* issuer
FrozenIssuerRejected ==
    \A code \in DOMAIN stat :
        Frozen(Cur, stat[code].issuer, code) =>
            \A quantity \in ExaminedAssets, memo \in ExaminedMemos, auth \in ExaminedAuths :
                quantity.symbol.code = code =>
                    /\ \A to \in Names :
                          LET r == issue(Cur, to, quantity, memo, auth) IN
                          /\ r.err # "ok"
                          /\ IssueInputsValid(Cur, to, quantity, memo, auth)
                             => r.err = "AccountFrozen"
                    /\ \A from \in Names, to \in AllNames :
                          LET r == transfer(Cur, from, to, quantity, memo, auth) IN
                          /\ r.err # "ok"
                          /\ (/\ TransferInputsValid(Cur, from, to, quantity, memo)
                              /\ from \in auth
                              /\ Self \in auth
                              /\ SenderCovers(Cur, from, quantity))
                             => r.err = "AccountFrozen"

(* C8 -- Crediting an existing frozen record is rejected with               *)
(* AccountFrozen: a transfer to a recipient whose record is frozen fails,   *)
(* an issue fails when the issuer's record is frozen, and while the         *)
(* issuer's record is frozen every transfer of the symbol is rejected, also *)
(* at fee 0; a record a step creates has is_frozen = FALSE.                 *)
CreditToFrozenRejected ==
    /\ [](FrozenRecipientRejected /\ FrozenIssuerRejected)
    /\ [][\A k \in (DOMAIN accounts') \ (DOMAIN accounts) : ~accounts'[k].is_frozen]_vars

\* at fee rate 0, a transfer between two accounts that are not frozen and
\* are not the issuer was rejected because the issuer's record is frozen
CreditToFrozenRejectedWitness ==
    /\ RejectedWith("transfer", "AccountFrozen")
    /\ stat["SYM"].fees = 0
    /\ Frozen(Cur, stat["SYM"].issuer, "SYM")
    /\ \E from \in Names \ {stat["SYM"].issuer}, to \in Names \ {stat["SYM"].issuer} :
          /\ ~Frozen(Cur, to, "SYM")
          /\ TransferInputsValid(Cur, from, to, Asset(FeeUnit, SYM2), 0)
          /\ SenderCovers(Cur, from, Asset(FeeUnit, SYM2))
          /\ transfer(Cur, from, to, Asset(FeeUnit, SYM2), 0, {from, Self}).err
               = "AccountFrozen"

\* a transfer created the record of its recipient
TransferCreatedRecord ==
    /\ Applied("transfer")
    /\ Bal(Cur, last.call.b, "SYM") = last.call.qty.amount
    /\ last.call.b # stat["SYM"].issuer
    /\ ~Frozen(Cur, last.call.b, "SYM")

----------------------------------------------------------------------------
\* close succeeds only on an existing record with balance 0 and then removes
\* it; authorized by the owner it fails NotFound without a record and
\* NonZeroBalance on a balance other than 0
CloseOutcome ==
    \A owner \in Names, sym \in Symbols, auth \in ExaminedAuths :
        LET r == close(Cur, owner, sym, auth) IN
        /\ r.err = "ok" =>
              /\ HasRow(Cur, owner, sym.code)
              /\ Bal(Cur, owner, sym.code) = 0
              /\ get_balance(r.L, owner, sym.code).err = "NotFound"
        /\ (owner \in auth /\ ~HasRow(Cur, owner, sym.code)) => r.err = "NotFound"
        /\ (owner \in auth /\ HasRow(Cur, owner, sym.code)
                           /\ Bal(Cur, owner, sym.code) # 0) => r.err = "NonZeroBalance"
        /\ r.err # "ok" => Apply(r, Cur) = Cur

(* C9 -- A balance record is removed only by a successful close of its      *)
(* owner, and only when its balance is 0; close fails NotFound without a    *)
(* record and NonZeroBalance on a non-zero balance; after a successful      *)
(* close get_balance fails NotFound, and a record appears only in an        *)
(* applied open, issue or transfer.                                         *)
CloseRequiresZeroBalance ==
    /\ []CloseOutcome
    /\ [][/\ \A k \in (DOMAIN accounts) \ (DOMAIN accounts') :
                /\ last'.err = "ok"
                /\ last'.call.op = "close"
                /\ last'.call.a = k[1]
                /\ last'.call.qty.symbol.code = k[2]
                /\ accounts[k].balance.amount = 0
                /\ get_balance(Ledger(stat', accounts', exempts'), k[1], k[2]).err
                     = "NotFound"
          /\ \A k \in (DOMAIN accounts') \ (DOMAIN accounts) :
                /\ last'.err = "ok"
                /\ last'.call.op \in {"open", "issue", "transfer"}]_vars

\* a close was applied and the owner's record is gone
CloseRequiresZeroBalanceWitness ==
    /\ Applied("close")
    /\ ~HasRow(Cur, last.call.a, "SYM")
    /\ get_balance(Cur, last.call.a, "SYM").err = "NotFound"
    /\ stat["SYM"].supply.amount > 0

\* a close of a record holding a balance was rejected
CloseNonZeroRejected ==
    /\ RejectedWith("close", "NonZeroBalance")
    /\ \E owner \in Names : Bal(Cur, owner, "SYM") > 0

(* C10 -- Idempotent open: a second open with the same arguments after a    *)
(* successful one is successful and changes nothing; a successful open on   *)
(* an existing record changes nothing, whatever its balance and frozen      *)
(* flag, and on a missing record adds the record with balance 0 and         *)
(* is_frozen = FALSE and changes nothing else.                              *)
IdempotentOpen ==
    \A owner \in AllNames, sym \in Symbols, ram_payer \in Names, auth \in ExaminedAuths :
        LET r1 == open(Cur, owner, sym, auth, ram_payer)
            key == <<owner, sym.code>>
        IN r1.err = "ok" =>
              /\ LET r2 == open(r1.L, owner, sym, auth, ram_payer)
                 IN r2.err = "ok" /\ r2.L = r1.L
              /\ HasRow(Cur, owner, sym.code) => r1.L = Cur
              /\ ~HasRow(Cur, owner, sym.code) =>
                    /\ r1.L.accounts =
                         accounts @@ (key :> [balance |-> Asset(0, sym), is_frozen |-> FALSE])
                    /\ r1.L.stat = stat
                    /\ r1.L.exempts = exempts

\* an open was applied to an existing record that is frozen and not empty
IdempotentOpenWitness ==
    /\ Applied("open")
    /\ Frozen(Cur, last.call.a, "SYM")
    /\ Bal(Cur, last.call.a, "SYM") > 0

\* an open was applied that created the record
OpenCreatedRecord ==
    /\ Applied("open")
    /\ HasRow(Cur, last.call.a, "SYM")
    /\ Bal(Cur, last.call.a, "SYM") = 0
    /\ DOMAIN accounts = {<<last.call.a, "SYM">>}

----------------------------------------------------------------------------
\* the checks of issue that come before the supply ceiling all pass
IssueOtherwiseValid(L, to, quantity, memo, auth) ==
    /\ symbol_is_valid(quantity.symbol)
    /\ memo <= MaxMemo
    /\ quantity.symbol.code \in DOMAIN L.stat
    /\ to = L.stat[quantity.symbol.code].issuer
    /\ to \in auth
    /\ quantity.amount > 0
    /\ quantity.symbol = L.stat[quantity.symbol.code].supply.symbol

\* what may still be issued of a symbol
Headroom(L, code) == L.stat[code].max_supply.amount - L.stat[code].supply.amount

(* C11 -- Supply ceiling: an issue that passes every other check is         *)
(* rejected with SupplyExceeded exactly when quantity.amount exceeds        *)
(* max_supply - supply, and the rejection leaves the supply and the         *)
(* issuer's balance as they were; an issue of exactly the remaining         *)
(* headroom to an issuer whose record is not frozen succeeds, makes supply  *)
(* equal to max_supply and adds the quantity to the issuer's balance.       *)
SupplyCeiling ==
    \A to \in Names, quantity \in ExaminedAssets, memo \in ExaminedMemos,
       auth \in ExaminedAuths :
        IssueOtherwiseValid(Cur, to, quantity, memo, auth) =>
            LET code == quantity.symbol.code
                r == issue(Cur, to, quantity, memo, auth)
                after == Apply(r, Cur)
            IN /\ (r.err = "SupplyExceeded") <=> (quantity.amount > Headroom(Cur, code))
               /\ r.err = "SupplyExceeded" =>
                     /\ get_supply(after, code) = get_supply(Cur, code)
                     /\ get_balance(after, to, code) = get_balance(Cur, to, code)
                     /\ after = Cur
               /\ (quantity.amount = Headroom(Cur, code) /\ ~Frozen(Cur, to, code)) =>
                     /\ r.err = "ok"
                     /\ after.stat[code].supply = after.stat[code].max_supply
                     /\ Bal(after, to, code) = Bal(Cur, to, code) + quantity.amount

\* an issue of more than the headroom left was rejected while part of the
\* maximum supply was issued and part was not
SupplyCeilingWitness ==
    /\ RejectedWith("issue", "SupplyExceeded")
    /\ stat["SYM"].supply.amount > 0
    /\ Headroom(Cur, "SYM") > 0
    /\ \E quantity \in ExaminedAssets :
          /\ IssueOtherwiseValid(Cur, stat["SYM"].issuer, quantity, 0, {stat["SYM"].issuer})
          /\ issue(Cur, stat["SYM"].issuer, quantity, 0, {stat["SYM"].issuer}).err
               = "SupplyExceeded"

\* an issue of exactly the headroom left after a retire was applied
IssueFilledHeadroom ==
    /\ Applied("issue")
    /\ stat["SYM"].supply = stat["SYM"].max_supply
    /\ last.call.qty.amount < stat["SYM"].max_supply.amount

----------------------------------------------------------------------------
(* C12 -- Fee truncation: in the fee scenario the fee an applied transfer   *)
(* charges, the amount the issuer's balance grows by, equals                *)
(* floor(amount / 10000) * fee_rate for every amount and every fee rate in  *)
(* 0..49; it is 0 for every amount below 10000, it is 50 for amount 20000   *)
(* at fee rate 25, and sender and recipient together lose exactly the fee.  *)
FeeTruncation ==
    [][TransferStep =>
         LET amount == last'.call.qty.amount
             fee_rate == stat["SYM"].fees
             charged == Delta(stat["SYM"].issuer, "SYM")
         IN /\ amount > 0
            /\ fee_rate \in 0 .. 49
            /\ charged = (amount \div 10000) * fee_rate
            /\ amount < 10000 => charged = 0
            /\ (amount = 20000 /\ fee_rate = 25) => charged = 50
            /\ Delta(last'.call.a, "SYM") + Delta(last'.call.b, "SYM") = 0 - charged]_vars

\* a transfer was applied whose fee differs from floor(amount * fee_rate / 10000)
FeeTruncationWitness ==
    /\ Applied("transfer")
    /\ Bal(Cur, "alice", "SYM") = (last.call.qty.amount \div 10000) * stat["SYM"].fees
    /\ Bal(Cur, "alice", "SYM")
         # (last.call.qty.amount * stat["SYM"].fees) \div 10000

\* a transfer of 20000 at fee rate 25 was applied and the issuer holds 50
FeeOfTwoUnitsCharged ==
    /\ Applied("transfer")
    /\ last.call.qty.amount = 20000
    /\ stat["SYM"].fees = 25
    /\ Bal(Cur, "alice", "SYM") = 50

\* a transfer of less than a fee unit was applied at the highest fee rate
\* and the issuer holds nothing
NoFeeBelowUnit ==
    /\ Applied("transfer")
    /\ last.call.qty.amount = 9999
    /\ stat["SYM"].fees = 49
    /\ Bal(Cur, "alice", "SYM") = 0

----------------------------------------------------------------------------
\* the rejections of transfer in the order the checks are specified in; the
\* first violated one, "none" when none of them is violated
TransferChecks(L, from, to, quantity, memo, auth) ==
    LET code == quantity.symbol.code IN
    << <<"SelfTransfer", from = to>>,
       <<"MissingAuth", from \notin auth>>,
       <<"UnknownAccount", ~is_account(to)>>,
       <<"NotFound", code \notin DOMAIN L.stat>>,
       <<"InvalidAmount", quantity.amount <= 0>>,
       <<"SymbolMismatch", code \in DOMAIN L.stat
                           /\ quantity.symbol # L.stat[code].supply.symbol>>,
       <<"MemoTooLong", memo > MaxMemo>>,
       <<"NoBalance", ~HasRow(L, from, code)>>,
       <<"Overdrawn", code \in DOMAIN L.stat
                      /\ Bal(L, from, code) < DebitOf(L, from, quantity)>>,
       <<"AccountFrozen", Frozen(L, from, code)>> >>

RECURSIVE FirstViolated(_)
FirstViolated(checks) ==
    IF checks = <<>> THEN "none"
    ELSE IF Head(checks)[2] THEN Head(checks)[1]
    ELSE FirstViolated(Tail(checks))

ViolatedCount(checks) == Cardinality({i \in DOMAIN checks : checks[i][2]})

OrderedAssets == {Asset(a, sym) : a \in {0, FeeUnit}, sym \in Symbols}
OrderedKinds == {"SelfTransfer", "UnknownAccount", "NotFound", "InvalidAmount",
                 "SymbolMismatch", "MemoTooLong", "NoBalance", "Overdrawn"}

\* a transfer that violates one or several of the checks is rejected with
\* the kind of the earliest violated one, and the handler has written no
\* table when it fails; a rejection of a kind only these checks produce is
\* that of the earliest violated check
FirstViolatedReported ==
    \A from \in Names, to \in AllNames, quantity \in OrderedAssets,
       memo \in {0, MaxMemo + 1}, auth \in PushedAuths :
        LET r == transfer(Cur, from, to, quantity, memo, auth)
            first == FirstViolated(TransferChecks(Cur, from, to, quantity, memo, auth))
        IN /\ first # "none" => (r.err = first /\ r.L = Cur)
           /\ r.err \in OrderedKinds => r.err = first

(* C13 -- Transfer check order: a transfer that violates one or several of  *)
(* the preconditions is rejected with the kind of the earliest violated     *)
(* check in the order SelfTransfer, missing authorization of from,          *)
(* UnknownAccount, NotFound, InvalidAmount, SymbolMismatch, MemoTooLong,    *)
(* NoBalance, Overdrawn, AccountFrozen; the handler has written no table    *)
(* when one of them fails, and a step whose transfer is rejected changes no *)
(* balance and no supply.                                                   *)
TransferCheckOrder ==
    /\ []FirstViolatedReported
    /\ [][(last'.call.op = "transfer" /\ last'.err # "ok") =>
            (accounts' = accounts /\ stat' = stat)]_vars

\* a transfer was rejected for the missing authorization of from, and a
\* transfer that violates that check and at least two later ones is so too
TransferCheckOrderWitness ==
    /\ RejectedWith("transfer", "MissingAuth")
    /\ "SYM" \in DOMAIN stat
    /\ \E from \in Names, to \in AllNames, quantity \in OrderedAssets,
          memo \in {0, MaxMemo + 1} :
          LET checks == TransferChecks(Cur, from, to, quantity, memo, {to}) IN
          /\ ViolatedCount(checks) >= 3
          /\ FirstViolated(checks) = "MissingAuth"
          /\ transfer(Cur, from, to, quantity, memo, {to}).err = "MissingAuth"

\* a transfer from a frozen record that does not cover the debit was
\* rejected as overdrawn
OverdrawnBeforeFrozen ==
    /\ RejectedWith("transfer", "Overdrawn")
    /\ \E from \in Names, to \in Names :
          /\ Frozen(Cur, from, "SYM")
          /\ transfer(Cur, from, to, Asset(FeeUnit, SYM2), 0, {from}).err = "Overdrawn"

----------------------------------------------------------------------------
\* the exemption entries of the symbols other than code
OtherExempts(L, code) == {x \in L.exempts : x[1] # code}

(* C14 -- switchexempt is a toggle: a successful switchexempt(issuer,       *)
(* symbol, account) adds the account to the exemption set of the symbol     *)
(* when it is absent and removes it when it is present, a second call with  *)
(* the same arguments succeeds and restores the tables, no supply record,   *)
(* no balance record and no exemption set of another symbol changes, and a  *)
(* call that passes the other checks is rejected as Unauthorized when       *)
(* issuer is not the stored issuer of the supply record.                    *)
ExemptToggle ==
    \A issuer \in Names, sym \in TokenSymbols \cup {BAD}, account \in AllNames,
       auth \in ExaminedAuths :
        LET r == switchexempt(Cur, issuer, sym, account, auth)
            row == <<sym.code, account>>
        IN /\ r.err = "ok" =>
                 /\ row \notin exempts => r.L.exempts = exempts \cup {row}
                 /\ row \in exempts => r.L.exempts = exempts \ {row}
                 /\ r.L.stat = stat
                 /\ r.L.accounts = accounts
                 /\ OtherExempts(r.L, sym.code) = OtherExempts(Cur, sym.code)
                 /\ LET r2 == switchexempt(r.L, issuer, sym, account, auth)
                    IN r2.err = "ok" /\ r2.L = Cur
           /\ (/\ issuer \in auth
               /\ symbol_is_valid(sym)
               /\ is_account(account)
               /\ sym.code \in DOMAIN stat
               /\ stat[sym.code].issuer # issuer)
              => (r.err = "Unauthorized" /\ Apply(r, Cur) = Cur)

\* a switchexempt removed an entry of one symbol while the other symbol has
\* an entry for the same account, and balances of both symbols exist
ExemptToggleWitness ==
    /\ Applied("switchexempt")
    /\ <<last.call.qty.symbol.code, last.call.b>> \notin exempts
    /\ \E x \in exempts : x[1] # last.call.qty.symbol.code /\ x[2] = last.call.b
    /\ \A code \in {"SYM", "TOK"} :
          code \in DOMAIN stat /\ stat[code].supply.amount > 0

\* a switchexempt signed by an account that is not the issuer of the token
\* was rejected
ExemptUnauthorizedReached ==
    /\ RejectedWith("switchexempt", "Unauthorized")
    /\ \A code \in {"SYM", "TOK"} : code \in DOMAIN stat
    /\ stat["SYM"].issuer # stat["TOK"].issuer

----------------------------------------------------------------------------
\* fee rates setfee is examined on; the argument is a uint8_t
ExaminedFees == {0, FeeLimit - 1, FeeLimit, FeeLimit + 1, 255}

\* setfee signed for its issuer argument: a fee rate of 50 or more is
\* rejected as InvalidFee, an issuer other than the stored one as
\* Unauthorized, and an accepted fee rate is stored
SetFeeOutcome ==
    \A issuer \in Names, sym \in Symbols, fees \in ExaminedFees, auth \in ExaminedAuths :
        LET r == setfee(Cur, issuer, sym, fees, auth) IN
        /\ (issuer \in auth /\ fees >= 50) =>
              (r.err = "InvalidFee" /\ Apply(r, Cur) = Cur)
        /\ (/\ issuer \in auth
            /\ fees < 50
            /\ sym.code \in DOMAIN stat
            /\ stat[sym.code].issuer # issuer) =>
              (r.err = "Unauthorized" /\ Apply(r, Cur) = Cur)
        /\ r.err = "ok" =>
              /\ fees \in 0 .. 49
              /\ r.L.stat[sym.code].fees = fees
              /\ stat[sym.code].issuer = issuer

FeeRateInRange == \A code \in DOMAIN stat : stat[code].fees \in 0 .. 49

SetFeeUnauthorizedReached ==
    /\ RejectedWith("setfee", "Unauthorized")
    /\ stat["SYM"].fees # DefaultFees

----------------------------------------------------------------------------
\* the steps that apply an action of the given name
StepOf(op) == last'.err = "ok" /\ last'.call.op = op

\* a create signed by the contract for a symbol code that has a supply
\* record is rejected as AlreadyExists
SecondCreateRejected ==
    \A issuer \in Names, sym \in {SYM2, SYM4}, auth \in ExaminedAuths :
        (Self \in auth /\ sym.code \in DOMAIN stat) =>
            LET r == create(Cur, issuer, Asset(FeeUnit, sym), auth)
            IN r.err = "AlreadyExists" /\ Apply(r, Cur) = Cur

(* C16 -- Supply-record lifecycle: a supply record, once created, exists in *)
(* every later state with the same max_supply and issuer, and a second      *)
(* create for its symbol code fails AlreadyExists; its supply changes only  *)
(* in applied issue (+quantity) and retire (-quantity) steps and its fee    *)
(* rate only in applied setfee steps; applied transfer, open, close, freeze *)
(* and switchexempt steps leave the supply records as they were.            *)
SupplyRecordLifecycle ==
    /\ []SecondCreateRejected
    /\ [][/\ \A code \in DOMAIN stat :
                /\ code \in DOMAIN stat'
                /\ stat'[code].max_supply = stat[code].max_supply
                /\ stat'[code].issuer = stat[code].issuer
                /\ stat'[code].supply.symbol = stat[code].supply.symbol
                /\ stat'[code].supply # stat[code].supply =>
                      /\ last'.call.qty.symbol.code = code
                      /\ \/ /\ StepOf("issue")
                            /\ stat'[code].supply.amount
                                 = stat[code].supply.amount + last'.call.qty.amount
                         \/ /\ StepOf("retire")
                            /\ stat'[code].supply.amount
                                 = stat[code].supply.amount - last'.call.qty.amount
                /\ stat'[code].fees # stat[code].fees =>
                      /\ StepOf("setfee")
                      /\ last'.call.qty.symbol.code = code
                      /\ stat'[code].fees = last'.call.fees
          /\ \A code \in (DOMAIN stat') \ (DOMAIN stat) :
                /\ StepOf("create")
                /\ stat'[code].supply.amount = 0
          /\ (\E op \in {"transfer", "open", "close", "freeze", "switchexempt"} : StepOf(op))
                => stat' = stat
          /\ StepOf("issue") => stat' # stat
          /\ StepOf("retire") => stat' # stat]_vars

\* a second create was rejected for a token whose supply and fee rate have
\* changed since it was created
SupplyRecordLifecycleWitness ==
    /\ RejectedWith("create", "AlreadyExists")
    /\ stat["SYM"].supply.amount > 0
    /\ stat["SYM"].fees # DefaultFees
    /\ create(Cur, "bob", Asset(FeeUnit, SYM4), {Self}).err = "AlreadyExists"

\* a retire that left part of the supply was applied
RetireLoweredSupply ==
    /\ Applied("retire")
    /\ stat["SYM"].supply.amount = stat["SYM"].max_supply.amount - last.call.qty.amount

----------------------------------------------------------------------------
\* the tables after the step
Nxt == Ledger(stat', accounts', exempts')

\* the owner of a frozen, empty record cannot get an unfrozen record back by
\* closing the record and opening it again
FrozenOwnerCannotReopen ==
    \A n \in Names :
        (Frozen(Cur, n, "SYM") /\ n # stat["SYM"].issuer) =>
            LET r1 == close(Cur, n, SYM2, {n})
                r2 == Then(r1, LAMBDA M : open(M, n, SYM2, {n}, n))
            IN ~(r2.err = "ok" /\ ~Frozen(r2.L, n, "SYM"))

(* C17 -- Freeze authority stays with the issuer: a record that is frozen   *)
(* stays frozen in every later state until a freeze(account, symbol, false) *)
(* signed by the issuer is applied; no step signed by others ends the       *)
(* freeze, and the owner cannot end it by closing the empty record and      *)
(* opening it again.                                                        *)
FreezeStaysWithIssuer ==
    /\ []FrozenOwnerCannotReopen
    /\ [][\A n \in Names :
            (Frozen(Cur, n, "SYM") /\ n # stat["SYM"].issuer) =>
                \/ Frozen(Nxt, n, "SYM")
                \/ /\ StepOf("freeze")
                   /\ last'.call.a = n
                   /\ ~last'.call.status
                   /\ stat["SYM"].issuer \in last'.call.auth]_vars

----------------------------------------------------------------------------
(* C18 -- No debit without the owner's authorization: a step that lowers    *)
(* the balance of a record or removes the record applies an action signed   *)
(* by the owner of the record: a transfer sent by the owner, a retire when  *)
(* the owner is the issuer, or a close of the owner; no other action and no *)
(* transfer sent by another account lowers the balance.                     *)
NoDebitWithoutOwner ==
    [][\A k \in DOMAIN accounts :
          (\/ k \notin DOMAIN accounts'
           \/ accounts'[k].balance.amount < accounts[k].balance.amount) =>
              /\ last'.err = "ok"
              /\ k[1] \in last'.call.auth
              /\ k[2] = last'.call.qty.symbol.code
              /\ \/ last'.call.op = "transfer" /\ last'.call.a = k[1]
                 \/ last'.call.op = "retire" /\ stat[k[2]].issuer = k[1]
                 \/ last'.call.op = "close" /\ last'.call.a = k[1]]_vars

\* a transfer to the contract account, signed by the sender and the
\* contract, took the whole balance of a sender that is not the issuer
NoDebitWithoutOwnerWitness ==
    /\ Applied("transfer")
    /\ last.call.b = Self
    /\ last.call.a \in last.call.auth
    /\ last.call.a # stat["SYM"].issuer
    /\ HasRow(Cur, last.call.a, "SYM")
    /\ Bal(Cur, last.call.a, "SYM") = 0

----------------------------------------------------------------------------
(* C19 -- Overdraft threshold of transfer: a transfer that passes the       *)
(* checks before the debit is rejected as NoBalance when the sender has no  *)
(* record of the symbol; a sender that is not exempt is rejected as         *)
(* Overdrawn exactly when its balance is below quantity + fee, so also when *)
(* it holds quantity or more but less than quantity + fee; an exempt sender *)
(* is rejected as Overdrawn exactly when its balance is below quantity.     *)
OverdraftThreshold ==
    \A from \in Names, to \in Names, quantity \in ExaminedAssets :
        TransferInputsValid(Cur, from, to, quantity, 0) =>
            LET code == quantity.symbol.code
                r == transfer(Cur, from, to, quantity, 0, {from, Self})
                b == Bal(Cur, from, code)
                fee == (quantity.amount \div 10000) * stat[code].fees
            IN /\ ~HasRow(Cur, from, code) => r.err = "NoBalance"
               /\ (HasRow(Cur, from, code) /\ ~Exempt(Cur, from, code)) =>
                     ((r.err = "Overdrawn") <=> (b < quantity.amount + fee))
               /\ (HasRow(Cur, from, code) /\ Exempt(Cur, from, code)) =>
                     ((r.err = "Overdrawn") <=> (b < quantity.amount))
               /\ r.err \in {"NoBalance", "Overdrawn"} => Apply(r, Cur) = Cur

\* a transfer was rejected as overdrawn, and a sender that is not exempt
\* holds the quantity but not the fee on it
OverdraftThresholdWitness ==
    /\ RejectedWith("transfer", "Overdrawn")
    /\ \E from \in Names, to \in Names :
          /\ ~Exempt(Cur, from, "SYM")
          /\ TransferInputsValid(Cur, from, to, Asset(FeeUnit, SYM2), 0)
          /\ Bal(Cur, from, "SYM") >= FeeUnit
          /\ Bal(Cur, from, "SYM") < FeeUnit + FeeOf(Cur, Asset(FeeUnit, SYM2))
          /\ transfer(Cur, from, to, Asset(FeeUnit, SYM2), 0, {from, Self}).err = "Overdrawn"

\* an exempt sender that held exactly the quantity transferred it while the
\* fee rate is not 0
ExemptSenderPaidQuantityOnly ==
    /\ Applied("transfer")
    /\ Exempt(Cur, last.call.a, "SYM")
    /\ stat["SYM"].fees > 0
    /\ last.call.a # stat["SYM"].issuer
    /\ HasRow(Cur, last.call.a, "SYM")
    /\ Bal(Cur, last.call.a, "SYM") = 0

----------------------------------------------------------------------------
\* a retire that passes the checks before the supply is touched: NoBalance
\* without a record of the issuer, Overdrawn on a balance below the
\* quantity whatever the supply, AccountFrozen on a frozen record that
\* covers the quantity, and otherwise the supply and the issuer's balance
\* drop by the quantity and nothing else changes
RetireOutcome ==
    \A quantity \in ExaminedAssets, auth \in ExaminedAuths :
        RetireInputsValid(Cur, quantity, 0, auth) =>
            LET code == quantity.symbol.code
                issuer == stat[code].issuer
                key == <<issuer, code>>
                r == retire(Cur, quantity, 0, auth)
            IN /\ ~HasRow(Cur, issuer, code) => r.err = "NoBalance"
               /\ (HasRow(Cur, issuer, code) /\ Bal(Cur, issuer, code) < quantity.amount)
                     => r.err = "Overdrawn"
               /\ (/\ Bal(Cur, issuer, code) >= quantity.amount
                   /\ Frozen(Cur, issuer, code)) => r.err = "AccountFrozen"
               /\ (/\ HasRow(Cur, issuer, code)
                   /\ Bal(Cur, issuer, code) >= quantity.amount
                   /\ ~Frozen(Cur, issuer, code)) =>
                     /\ r.err = "ok"
                     /\ r.L = [Cur EXCEPT
                                 !.stat[code].supply.amount = @ - quantity.amount,
                                 !.accounts[key].balance.amount = @ - quantity.amount]
               /\ r.err # "ok" => Apply(r, Cur) = Cur

(* C20 -- Retire burns only from the issuer's own balance: an applied       *)
(* retire lowers the supply and the issuer's balance by exactly the         *)
(* quantity and changes no other record; a retire is rejected as Overdrawn  *)
(* when the issuer's balance is below the quantity, also when the supply    *)
(* held by others is not, as NoBalance when the issuer has no record and as *)
(* AccountFrozen when the issuer's record, covering the quantity, is        *)
(* frozen.                                                                  *)
RetireBurnsIssuerBalance ==
    /\ []RetireOutcome
    /\ [][StepOf("retire") =>
            LET code == last'.call.qty.symbol.code
                issuer == stat[code].issuer
            IN /\ issuer \in last'.call.auth
               /\ stat'[code].supply.amount
                    = stat[code].supply.amount - last'.call.qty.amount
               /\ Delta(issuer, code) = 0 - last'.call.qty.amount
               /\ DOMAIN accounts' = DOMAIN accounts
               /\ \A k \in DOMAIN accounts : k # <<issuer, code>> => accounts'[k] = accounts[k]
               /\ accounts'[<<issuer, code>>].is_frozen = accounts[<<issuer, code>>].is_frozen
               /\ exempts' = exempts
               /\ stat' = [stat EXCEPT ![code].supply.amount = stat'[code].supply.amount]]_vars

\* a retire was rejected as overdrawn while the supply, held by others,
\* covers the quantity and the issuer's record does not
RetireBurnsIssuerBalanceWitness ==
    /\ RejectedWith("retire", "Overdrawn")
    /\ HasRow(Cur, stat["SYM"].issuer, "SYM")
    /\ stat["SYM"].supply.amount >= FeeUnit
    /\ Bal(Cur, stat["SYM"].issuer, "SYM") < FeeUnit
    /\ retire(Cur, Asset(FeeUnit, SYM2), 0, {stat["SYM"].issuer}).err = "Overdrawn"

\* a retire was rejected because the issuer has no record while others hold
\* the supply
RetireWithoutRecordRejected ==
    /\ RejectedWith("retire", "NoBalance")
    /\ ~HasRow(Cur, stat["SYM"].issuer, "SYM")
    /\ stat["SYM"].supply.amount >= FeeUnit

----------------------------------------------------------------------------
\* at the fee rate of the token, for the smallest quantity transfer accepts,
\* every quantity of the fee scenario and either branch of transfer: the fee is at least 0, below the quantity and
\* at most quantity * 49 / 10000, and the amounts transfer passes to
\* add_balance, the credit of the recipient and the fee, are not negative,
\* the credit of the recipient being positive
FeeBelowQuantity ==
    \A a \in {1} \cup FeeAmounts, is_exempted \in BOOLEAN :
        LET quantity == Asset(a, SYM2)
            fee == compute_fee(quantity, stat["SYM"].fees)
            credit == credit_of(is_exempted, quantity, fee)
        IN /\ stat["SYM"].fees \in 0 .. 49
           /\ 0 <= fee.amount
           /\ fee.amount < a
           /\ fee.amount * 10000 <= a * 49
           /\ credit.amount > 0
           /\ is_exempted => credit.amount = a - fee.amount

(* C21 -- The fee is always strictly smaller than the transferred amount:   *)
(* for every fee rate a token can have and every quantity transfer accepts, *)
(* 0 <= fee < quantity.amount and fee <= quantity.amount * 49 / 10000, so   *)
(* every amount passed to add_balance is non-negative and the credit        *)
(* quantity - fee of the exempt branch is strictly positive; an applied     *)
(* transfer raises the balance of its recipient and lowers no balance but   *)
(* that of its sender.                                                      *)
FeeSmallerThanAmount ==
    /\ []FeeBelowQuantity
    /\ [][TransferStep =>
            /\ Delta(last'.call.b, "SYM") > 0
            /\ StepExempt => Delta(last'.call.b, "SYM") = last'.call.qty.amount - StepFee
            /\ StepFee < last'.call.qty.amount
            /\ \A n \in Names : n # last'.call.a => Delta(n, "SYM") >= 0]_vars

\* an exempt sender transferred more than two fee units at the highest fee
\* rate: the recipient got the quantity less the largest fee of the scenario
FeeSmallerThanAmountWitness ==
    /\ Applied("transfer")
    /\ Exempt(Cur, last.call.a, "SYM")
    /\ stat["SYM"].fees = FeeLimit - 1
    /\ last.call.qty.amount > MaxFeeUnits * FeeUnit
    /\ Bal(Cur, last.call.b, "SYM") = last.call.qty.amount - MaxFeeUnits * (FeeLimit - 1)
    /\ Bal(Cur, "alice", "SYM") = MaxFeeUnits * (FeeLimit - 1)

\* a transfer of less than a fee unit was applied for an exempt sender: the
\* fee is 0 and the recipient got the whole quantity
ExemptCreditWithoutFee ==
    /\ Applied("transfer")
    /\ Exempt(Cur, last.call.a, "SYM")
    /\ stat["SYM"].fees > 0
    /\ last.call.qty.amount < FeeUnit
    /\ Bal(Cur, last.call.b, "SYM") = last.call.qty.amount
    /\ Bal(Cur, "alice", "SYM") = 0

====
